---------------------------- MODULE Spec2Model ----------------------------
(***************************************************************************)
(* The renewal dialog of Frontend/src/pages/ExpiredMemberships.tsx as a    *)
(* state machine: the React state of the component, one action per event   *)
(* handler or promise continuation, and the three useEffect blocks run as  *)
(* part of every action that changes one of their dependencies (React 18   *)
(* batches the state updates of a handler or continuation, renders once    *)
(* and flushes the effects before the next event is handled).              *)
(***************************************************************************)
EXTENDS Integers, Sequences, FiniteSets, Bags, TLC

(***************************************************************************)
(* Bounds of the model.                                                    *)
(***************************************************************************)
\* Outstanding getSeats/getLockers and getAvailableShifts requests, counted
\* together; the code has no limit.
MaxInFlight == 2
\* Outstanding renewStudent calls; the code has no limit.
MaxRenewCalls == 1

(***************************************************************************)
(* Values of the program.                                                  *)
(***************************************************************************)
\* useState(null): no option object is held.
NullSel == -1
\* The synthetic option { value: null, label: 'None' }.
NoneOpt == 0
\* selectedStudent = null.
NoStudent == 0
\* The empty string of a numeric input.
EmptyStr == -1000
\* parseFloat of a string that is no number.
NaN == -2000

(***************************************************************************)
(* What the remote API answers: a fixed scenario.                          *)
(***************************************************************************)
StudentIds == {1, 2}
Branches == {1, 2}
Shifts == {1, 2, 3}

\* api.getSchedules(): the fee of each schedule.
ScheduleFee(s) == CASE s = 1 -> 300 [] s = 2 -> 500 [] OTHER -> 800

\* api.getSeats({branchId}): the seats of a branch, in the order returned.
\* studentId 0 stands for a seat without occupant (null / undefined).
ServerSeats(b) ==
    IF b = 1
    THEN << [id |-> 1, studentId |-> 0],
            [id |-> 2, studentId |-> 1],
            [id |-> 3, studentId |-> 9] >>
    ELSE << [id |-> 4, studentId |-> 0] >>

\* api.getLockers(branchId): the lockers of a branch, in the order returned.
ServerLockers(b) ==
    IF b = 1
    THEN << [id |-> 1, isAssigned |-> FALSE, studentId |-> 0],
            [id |-> 2, isAssigned |-> TRUE,  studentId |-> 1],
            [id |-> 3, isAssigned |-> TRUE,  studentId |-> 9] >>
    ELSE << [id |-> 4, isAssigned |-> FALSE, studentId |-> 0] >>

\* api.getAvailableShifts(seatId): the ids of the shifts free for a seat.
ServerFreeShifts(seat) ==
    CASE seat = 1 -> {1, 3}
      [] seat = 2 -> {2}
      [] seat = 3 -> {}
      [] OTHER    -> {2, 3}

\* api.getStudent(id): the full details of a student.  A field that is
\* absent in the answer is 0 (numbers), NullSel (ids), "" (strings).
ServerStudent(st) ==
    IF st = 1
    THEN [id |-> 1, name |-> "Asha", phone |-> "98", address |-> "Main Rd",
          branchId |-> 1,
          assignments |-> << [seatId |-> 2, shiftId |-> 1] >>,
          lockerId |-> 2, totalFee |-> 250, lockerFee |-> 100,
          cash |-> 200, online |-> 100, discount |-> 50]
    ELSE [id |-> 2, name |-> "Ravi", phone |-> "98", address |-> "",
          branchId |-> 0,
          assignments |-> << >>,
          lockerId |-> 0, totalFee |-> 0, lockerFee |-> 0,
          cash |-> 0, online |-> 0, discount |-> 0]

AllSeatIds == {1, 2, 3, 4}
AllLockerIds == {1, 2, 3, 4}

(***************************************************************************)
(* The state of the component.                                             *)
(***************************************************************************)
VARIABLES
    catalogReq,        \* the mount effect's Promise.all: "pending", "done", "failed"
    allShifts,         \* ids of the shift options of the catalog
    branchOptions,     \* ids of the branch options of the catalog
    renewDialogOpen,
    selectedStudent,   \* id of the student held, or NoStudent
    nameInput, phoneInput, addressInput,
    startDate, endDate,      \* TRUE: a date is held, FALSE: undefined
    shiftOptions,      \* option value -> isDisabled
    seatOptions,       \* sequence of option values
    lockerOptions,     \* sequence of option values
    selectedShifts,    \* values of the selected shift options
    selectedSeat,      \* NullSel, NoneOpt or a seat id
    selectedBranch,    \* NullSel or a branch id
    selectedLocker,    \* NullSel, NoneOpt or a locker id
    totalFee, cash, online, discount, lockerFee,   \* EmptyStr or the number typed
    loadingSeats, loadingShifts, loadingLockers,
    branchReqs,        \* bag of the outstanding getSeats/getLockers pairs
    shiftReqs,         \* bag of the outstanding getAvailableShifts calls
    renewReqs,         \* bag of the outstanding renewStudent calls
    notice             \* the last toast of handleRenewSubmit

formVars == << nameInput, phoneInput, addressInput, startDate, endDate >>
moneyVars == << cash, online, discount, lockerFee >>
catalogVars == << catalogReq, allShifts, branchOptions >>
selVars == << selectedShifts, selectedSeat, selectedBranch, selectedLocker >>
optVars == << shiftOptions, seatOptions, lockerOptions >>
loadVars == << loadingSeats, loadingShifts, loadingLockers >>
reqVars == << branchReqs, shiftReqs, renewReqs >>

vars == << catalogVars, renewDialogOpen, selectedStudent, formVars, optVars,
           selVars, totalFee, moneyVars, loadVars, reqVars, notice >>

(***************************************************************************)
(* Helpers.                                                                *)
(***************************************************************************)
Range(f) == { f[i] : i \in DOMAIN f }

RECURSIVE FilterSeq(_, _)
\* Array.prototype.filter over records, keeping the order; keep is the set
\* of indexes whose element passes the test.
FilterSeq(seq, keep) ==
    IF seq = << >> THEN << >>
    ELSE LET rest == FilterSeq(Tail(seq), { i - 1 : i \in keep \ {1} })
         IN  IF 1 \in keep THEN << Head(seq) >> \o rest ELSE rest

\* x?.value is truthy: an option is held and its value is a non-zero id.
HasValue(x) == x > 0

\* parseFloat(str): the number, or NaN for '' .
ParseFloat(str) == IF str = EmptyStr THEN NaN ELSE str

\* x || 0 for a number x.
OrZero(x) == IF x = NaN \/ x = 0 THEN 0 ELSE x

\* str.trim() over the strings of the model.
Trim(str) == IF str = "  " THEN "" ELSE str

\* selectedStudent?.assignments?.map(a => a.shiftId) ?? []
StudentShiftIds(st) ==
    IF st = NoStudent THEN {}
    ELSE { a.shiftId : a \in Range(ServerStudent(st).assignments) }


(***************************************************************************)
(* The availability resolver (lines 193-232).                              *)
(***************************************************************************)
\* The filter of line 204 without its second test: only free seats pass.
SeatOfferableFreeOnly(seat, subject) == seat.studentId = 0

\* The filter of line 204: !seat.studentId || seat.studentId === subject.
SeatOfferable(seat, subject) ==
    seat.studentId = 0 \/ seat.studentId = subject

\* The filter of line 211 without its second test: only unassigned lockers
\* pass.
LockerOfferableFreeOnly(locker, subject) == ~locker.isAssigned

\* The filter of line 211: !locker.isAssigned || locker.studentId === subject.
LockerOfferable(locker, subject) ==
    ~locker.isAssigned \/ locker.studentId = subject

\* Lines 205-208 without line 206: the offerable seats alone.
SeatOptionsForNoHead(b, subject) ==
    LET all  == ServerSeats(b)
        kept == FilterSeq(all, { i \in DOMAIN all : SeatOfferable(all[i], subject) })
    IN  [ i \in DOMAIN kept |-> kept[i].id ]

\* Lines 205-208: the None option, then the offerable seats in order.
SeatOptionsFor(b, subject) ==
    LET all  == ServerSeats(b)
        kept == FilterSeq(all, { i \in DOMAIN all : SeatOfferable(all[i], subject) })
    IN  << NoneOpt >> \o [ i \in DOMAIN kept |-> kept[i].id ]

\* Lines 212-215: the None option, then the offerable lockers in order.
LockerOptionsFor(b, subject) ==
    LET all  == ServerLockers(b)
        kept == FilterSeq(all, { i \in DOMAIN all : LockerOfferable(all[i], subject) })
    IN  << NoneOpt >> \o [ i \in DOMAIN kept |-> kept[i].id ]

\* The effect of lines 193-232, run with the values of the new render.
BranchEffect(open, br, st) ==
    IF ~open
    THEN UNCHANGED << seatOptions, lockerOptions, loadingSeats, loadingLockers,
                      branchReqs >>
    ELSE IF HasValue(br) /\ st # NoStudent
    THEN /\ loadingSeats' = TRUE
         /\ loadingLockers' = TRUE
         /\ branchReqs' = branchReqs (+) SetToBag({[branch |-> br, student |-> st]})
         /\ UNCHANGED << seatOptions, lockerOptions >>
    ELSE /\ seatOptions' = << NoneOpt >>
         /\ lockerOptions' = << NoneOpt >>
         /\ UNCHANGED << loadingSeats, loadingLockers, branchReqs >>

\* The effect did not run: none of its dependencies changed.
NoBranchEffect ==
    UNCHANGED << seatOptions, lockerOptions, loadingSeats, loadingLockers,
                 branchReqs >>

(***************************************************************************)
(* The shift availability resolver (lines 235-268).                        *)
(***************************************************************************)
\* Line 239 with isDisabled: true.
AllDisabled(shifts) == [ s \in shifts |-> TRUE ]

\* Line 239: every shift of the catalog, none disabled.
AllEnabled(shifts) == [ s \in shifts |-> FALSE ]

\* Lines 247-248 left out: the student's own shift ids are not added.
AvailableShiftIdsServerOnly(seat, st) == ServerFreeShifts(seat)

\* Lines 245-248: the ids reported free, then the student's own shift ids.
AvailableShiftIds(seat, st) == ServerFreeShifts(seat) \cup StudentShiftIds(st)

\* Lines 250-254: isDisabled: !availableShiftIds.has(shift.value).
MarkedOptions(shifts, avail) == [ s \in shifts |-> s \notin avail ]

\* Line 257 left out: the selection is not filtered.
FilterSelectedKeepAll(prev, avail) == prev

\* Line 257: prev.filter(s => availableShiftIds.has(s.value)).
FilterSelected(prev, avail) == prev \cap avail

\* The effect of lines 235-268, run with the values of the new render; base
\* is what the handler itself left in shiftOptions.
ShiftEffect(open, seat, st, shifts, base) ==
    IF ~open
    THEN /\ shiftOptions' = base
         /\ UNCHANGED << loadingShifts, shiftReqs >>
    ELSE IF ~HasValue(seat)
    THEN /\ shiftOptions' = AllEnabled(shifts)
         /\ UNCHANGED << loadingShifts, shiftReqs >>
    ELSE /\ loadingShifts' = TRUE
         /\ shiftReqs' = shiftReqs (+)
                SetToBag({[seat |-> seat, student |-> st, shifts |-> shifts]})
         /\ shiftOptions' = base

NoShiftEffect == UNCHANGED << shiftOptions, loadingShifts, shiftReqs >>

\* The bound of the model on the requests outstanding after a step.
WithinBound ==
    BagCardinality(branchReqs') + BagCardinality(shiftReqs') <= MaxInFlight

(***************************************************************************)
(* The fee calculator (lines 270-279, 395-400).                            *)
(***************************************************************************)
\* Lines 272-278 with line 277 as setTotalFee(''): no fee for any other
\* count.
FeeEffectNoDefault(sel, shifts) ==
    IF Cardinality(sel) = 1
    THEN LET s == CHOOSE x \in sel : TRUE
         IN  IF s \in shifts THEN ScheduleFee(s) ELSE 0
    ELSE EmptyStr

\* Lines 272-278: the fee of the one selected shift as the catalog holds it
\* (0 when the catalog does not hold it), '0' for any other count.
FeeEffect(sel, shifts) ==
    IF Cardinality(sel) = 1
    THEN LET s == CHOOSE x \in sel : TRUE
         IN  IF s \in shifts THEN ScheduleFee(s) ELSE 0
    ELSE 0

\* Line 400.
IsFeeReadOnly(sel) == Cardinality(sel) = 1

\* Lines 395-397.
Paid(c, o) == OrZero(ParseFloat(c)) + OrZero(ParseFloat(o))

\* Line 399 with the result clamped at 0.
DueClamped(t, d, c, o) ==
    LET x == OrZero(ParseFloat(t)) - OrZero(ParseFloat(d)) - Paid(c, o)
    IN  IF x < 0 THEN 0 ELSE x

\* Line 399.
Due(t, d, c, o) == OrZero(ParseFloat(t)) - OrZero(ParseFloat(d)) - Paid(c, o)

\* The values of the render (lines 397, 399, 400).
paid == Paid(cash, online)
due == Due(totalFee, discount, cash, online)
isFeeReadOnly == IsFeeReadOnly(selectedShifts)

(***************************************************************************)
(* The state after the component has mounted: the useState defaults of     *)
(* lines 99-141, the catalog fetch of lines 147-174 started, and the fee   *)
(* effect run once (no shift selected: totalFee '0').                      *)
(***************************************************************************)
Init ==
    /\ catalogReq = "pending"
    /\ allShifts = {}
    /\ branchOptions = {}
    /\ renewDialogOpen = FALSE
    /\ selectedStudent = NoStudent
    /\ nameInput = ""
    /\ phoneInput = ""
    /\ addressInput = ""
    /\ startDate = TRUE
    /\ endDate = TRUE
    /\ shiftOptions = AllEnabled({})
    /\ seatOptions = << >>
    /\ lockerOptions = << >>
    /\ selectedShifts = {}
    /\ selectedSeat = NullSel
    /\ selectedBranch = NullSel
    /\ selectedLocker = NullSel
    /\ totalFee = FeeEffect({}, {})
    /\ cash = EmptyStr
    /\ online = EmptyStr
    /\ discount = EmptyStr
    /\ lockerFee = EmptyStr
    /\ loadingSeats = FALSE
    /\ loadingShifts = FALSE
    /\ loadingLockers = FALSE
    /\ branchReqs = EmptyBag
    /\ shiftReqs = EmptyBag
    /\ renewReqs = EmptyBag
    /\ notice = ""

(***************************************************************************)
(* The catalog (lines 147-174).                                            *)
(***************************************************************************)
\* getSchedules and getBranches both answered: lines 155-168, then the
\* shift effect and the fee effect, which depend on allShifts.
CatalogLoaded ==
    /\ catalogReq = "pending"
    /\ catalogReq' = "done"
    /\ allShifts' = Shifts
    /\ branchOptions' = Branches
    /\ ShiftEffect(renewDialogOpen, selectedSeat, selectedStudent, Shifts,
                   AllEnabled(Shifts))
    /\ totalFee' = FeeEffect(selectedShifts, Shifts)
    /\ NoBranchEffect
    /\ WithinBound
    /\ UNCHANGED << renewDialogOpen, selectedStudent, formVars, selVars,
                    moneyVars, renewReqs, notice >>

\* getSchedules answered and its shifts kept although getBranches failed.
ShiftsAfterCatalogFailureKept(prev) == Shifts

\* Promise.all (line 150) rejects when either call fails: line 160 is not
\* reached and allShifts stays as it is.
ShiftsAfterCatalogFailure(prev) == prev

\* One of the two calls failed: the catch of lines 169-172 sets nothing.
CatalogFailed ==
    /\ catalogReq = "pending"
    /\ catalogReq' = "failed"
    /\ allShifts' = ShiftsAfterCatalogFailure(allShifts)
    /\ UNCHANGED << branchOptions, renewDialogOpen, selectedStudent,
                    formVars, optVars, selVars, totalFee, moneyVars, loadVars,
                    reqVars, notice >>

(***************************************************************************)
(* Opening and closing the dialog.                                         *)
(***************************************************************************)
\* The fee effect does not run after the dialog opens: the stored fee of
\* line 312 stays.
TotalFeeAfterOpenStored(stored, sel, shifts) == stored

\* Line 312 sets the stored fee, and the fee effect, which runs after the
\* render because selectedShifts is a new array, overwrites it.
TotalFeeAfterOpen(stored, sel, shifts) == FeeEffect(sel, shifts)

\* handleRenewClick (lines 281-329) with getStudent answered, then the three
\* effects: every one of them depends on a value set here.  The table under
\* the modal dialog is not reachable while the dialog is open.
HandleRenewClick(st) ==
    LET d == ServerStudent(st)
        br == IF d.branchId # 0 THEN d.branchId ELSE NullSel
        seat == IF d.assignments # << >> THEN d.assignments[1].seatId ELSE NullSel
        sel == StudentShiftIds(st)
    IN  /\ ~renewDialogOpen
        /\ selectedStudent' = st
        /\ startDate' = TRUE
        /\ endDate' = TRUE
        /\ nameInput' = d.name
        /\ phoneInput' = d.phone
        /\ addressInput' = d.address
        /\ selectedBranch' = br
        /\ selectedSeat' = seat
        /\ selectedShifts' = sel
        /\ totalFee' = TotalFeeAfterOpen(d.totalFee, sel, allShifts)
        /\ lockerFee' = d.lockerFee
        /\ cash' = d.cash
        /\ online' = d.online
        /\ selectedLocker' = IF d.lockerId # 0 THEN d.lockerId ELSE NullSel
        /\ discount' = d.discount
        /\ renewDialogOpen' = TRUE
        /\ BranchEffect(TRUE, br, st)
        /\ ShiftEffect(TRUE, seat, st, allShifts, shiftOptions)
        /\ WithinBound
        /\ UNCHANGED << catalogVars, renewReqs, notice >>

\* The Cancel button (line 731) or the dialog's onOpenChange (line 507).
\* The effects run and do nothing: renewDialogOpen is false.
CancelDialog ==
    /\ renewDialogOpen
    /\ renewDialogOpen' = FALSE
    /\ UNCHANGED << catalogVars, selectedStudent, formVars, optVars, selVars,
                    totalFee, moneyVars, loadVars, reqVars, notice >>

(***************************************************************************)
(* The selections.                                                         *)
(***************************************************************************)
\* What the branch Select's onChange (line 590) leaves in selectedSeat and
\* selectedLocker: setSelectedBranch is all it calls.
SeatAfterBranchChange(seat) == seat
LockerAfterBranchChange(locker) == locker

\* The branch Select (lines 587-592): another branch of the catalog is
\* picked; then the effect of lines 193-232.
SetBranch(b) ==
    /\ renewDialogOpen
    /\ b \in branchOptions
    /\ b # selectedBranch
    /\ selectedBranch' = b
    /\ selectedSeat' = SeatAfterBranchChange(selectedSeat)
    /\ selectedLocker' = LockerAfterBranchChange(selectedLocker)
    /\ BranchEffect(TRUE, b, selectedStudent)
    /\ NoShiftEffect
    /\ WithinBound
    /\ UNCHANGED << catalogVars, renewDialogOpen, selectedStudent, formVars,
                    selectedShifts, totalFee, moneyVars, renewReqs, notice >>

\* Line 601 left out: the seat change keeps the selection.
ShiftsAfterSeatChangeKept(prev) == prev

\* Line 601: setSelectedShifts([]).
ShiftsAfterSeatChange(prev) == {}

\* The seat Select (lines 596-607): another option is picked, or the value
\* is cleared (isClearable); then the shift effect and the fee effect.
SetSeat(s) ==
    /\ renewDialogOpen
    /\ selectedBranch # NullSel
    /\ s \in Range(seatOptions) \cup {NullSel}
    /\ s # selectedSeat
    /\ selectedSeat' = s
    /\ selectedShifts' = ShiftsAfterSeatChange(selectedShifts)
    /\ totalFee' = FeeEffect(selectedShifts', allShifts)
    /\ ShiftEffect(TRUE, s, selectedStudent, allShifts, shiftOptions)
    /\ NoBranchEffect
    /\ WithinBound
    /\ UNCHANGED << catalogVars, renewDialogOpen, selectedStudent, formVars,
                    selectedBranch, selectedLocker, moneyVars, renewReqs, notice >>

\* The options the multi Select lets the user pick: listed, not disabled and
\* not selected yet.
Pickable(s) ==
    /\ s \in DOMAIN shiftOptions
    /\ ~shiftOptions[s]
    /\ s \notin selectedShifts

\* handleShiftChange (lines 338-341) with the Select's new value, then the
\* fee effect.
HandleShiftChange(options) ==
    /\ renewDialogOpen
    /\ selectedShifts' = options
    /\ totalFee' = FeeEffect(options, allShifts)
    /\ UNCHANGED << catalogVars, renewDialogOpen, selectedStudent, formVars,
                    optVars, selectedSeat, selectedBranch, selectedLocker,
                    moneyVars, loadVars, reqVars, notice >>

\* The user picks one more shift.
PickShift == \E s \in Shifts : Pickable(s) /\ HandleShiftChange(selectedShifts \cup {s})

\* The user removes one selected shift.
RemoveShift == \E s \in selectedShifts : HandleShiftChange(selectedShifts \ {s})

\* handleLockerChange (lines 331-336).
LockerFeeAfterChange(option, fee) == IF option = NullSel THEN 0 ELSE fee

\* The locker Select (lines 623-631): an option is picked or the value is
\* cleared.
HandleLockerChange(option) ==
    /\ renewDialogOpen
    /\ selectedBranch # NullSel
    /\ option \in Range(lockerOptions) \cup {NullSel}
    /\ option # selectedLocker
    /\ selectedLocker' = option
    /\ lockerFee' = LockerFeeAfterChange(option, lockerFee)
    /\ UNCHANGED << catalogVars, renewDialogOpen, selectedStudent, formVars,
                    optVars, selectedShifts, selectedSeat, selectedBranch,
                    totalFee, cash, online, discount, loadVars, reqVars, notice >>

(***************************************************************************)
(* The answers to the outstanding requests.                                *)
(***************************************************************************)
\* Lines 210-215 left out of the continuation that sets the seat options:
\* the locker options stay as they are.
LockerOptionsCommittedLater(q, prev) == prev

\* Lines 210-215: the continuation that sets the seat options sets the
\* locker options from the lockers answer of the same Promise.all.
LockerOptionsCommitted(q, prev) == LockerOptionsFor(q.branch, q.student)

\* Lines 203-215 and the finally of lines 220-223, for the request q: both
\* answers have arrived and both lists are set in one continuation.
BranchFetchOk(q) ==
    /\ BagIn(q, branchReqs)
    /\ branchReqs' = branchReqs (-) SetToBag({q})
    /\ seatOptions' = SeatOptionsFor(q.branch, q.student)
    /\ lockerOptions' = LockerOptionsCommitted(q, lockerOptions)
    /\ loadingSeats' = FALSE
    /\ loadingLockers' = FALSE
    /\ UNCHANGED << catalogVars, renewDialogOpen, selectedStudent, formVars,
                    shiftOptions, selVars, totalFee, moneyVars, loadingShifts,
                    shiftReqs, renewReqs, notice >>

\* The catch of lines 217-219 falling back to lines 225-226: the None option
\* alone.
OptionsAfterBranchFailureCleared(prev) == << NoneOpt >>

\* The catch of lines 217-219 logs and toasts: an option list stays as it is.
OptionsAfterBranchFailure(prev) == prev

\* getSeats or getLockers failed (Promise.all rejects with the first
\* failure): the catch and the finally of lines 217-223.
BranchFetchFail(q) ==
    /\ BagIn(q, branchReqs)
    /\ branchReqs' = branchReqs (-) SetToBag({q})
    /\ seatOptions' = OptionsAfterBranchFailure(seatOptions)
    /\ lockerOptions' = OptionsAfterBranchFailure(lockerOptions)
    /\ loadingSeats' = FALSE
    /\ loadingLockers' = FALSE
    /\ UNCHANGED << catalogVars, renewDialogOpen, selectedStudent, formVars,
                    shiftOptions, selVars, totalFee, moneyVars, loadingShifts,
                    shiftReqs, renewReqs, notice >>

\* Lines 245-257 and the finally of lines 261-263, for the request q; then
\* the fee effect: the filter of line 257 always yields a new array.
ShiftFetchOk(q) ==
    LET avail == AvailableShiftIds(q.seat, q.student)
    IN  /\ BagIn(q, shiftReqs)
        /\ shiftReqs' = shiftReqs (-) SetToBag({q})
        /\ shiftOptions' = MarkedOptions(q.shifts, avail)
        /\ selectedShifts' = FilterSelected(selectedShifts, avail)
        /\ totalFee' = FeeEffect(selectedShifts', allShifts)
        /\ loadingShifts' = FALSE
        /\ UNCHANGED << catalogVars, renewDialogOpen, selectedStudent, formVars,
                        seatOptions, lockerOptions, selectedSeat, selectedBranch,
                        selectedLocker, moneyVars, loadingSeats, loadingLockers,
                        branchReqs, renewReqs, notice >>

\* The catch of lines 258-260 falling back to line 239: every shift enabled.
ShiftOptionsAfterFailureAllEnabled(prev, shifts) == [ s \in shifts |-> FALSE ]

\* The catch of lines 258-260 logs and toasts: the options stay as they are.
ShiftOptionsAfterFailure(prev, shifts) == prev

\* getAvailableShifts failed: the catch and the finally of lines 258-263.
ShiftFetchFail(q) ==
    /\ BagIn(q, shiftReqs)
    /\ shiftReqs' = shiftReqs (-) SetToBag({q})
    /\ shiftOptions' = ShiftOptionsAfterFailure(shiftOptions, q.shifts)
    /\ loadingShifts' = FALSE
    /\ UNCHANGED << catalogVars, renewDialogOpen, selectedStudent, formVars,
                    seatOptions, lockerOptions, selVars, totalFee, moneyVars,
                    loadingSeats, loadingLockers, branchReqs, renewReqs, notice >>

(***************************************************************************)
(* The fee and payment fields (lines 647-690).                             *)
(***************************************************************************)
\* What the user types into the numeric inputs of the model.
FeeInputs == {EmptyStr, 500}
CashInputs == {EmptyStr, 200, 700}
OnlineInputs == {EmptyStr, 100}
DiscountInputs == {EmptyStr, 50}

\* The Membership Fee input (lines 648-656): read-only while exactly one
\* shift is selected.
EditTotalFee(v) ==
    /\ renewDialogOpen
    /\ ~IsFeeReadOnly(selectedShifts)
    /\ v # totalFee
    /\ totalFee' = v
    /\ UNCHANGED << catalogVars, renewDialogOpen, selectedStudent, formVars,
                    optVars, selVars, moneyVars, loadVars, reqVars, notice >>

\* The Cash Payment input (lines 671-678).
EditCash(v) ==
    /\ renewDialogOpen
    /\ v # cash
    /\ cash' = v
    /\ UNCHANGED << catalogVars, renewDialogOpen, selectedStudent, formVars,
                    optVars, selVars, totalFee, online, discount, lockerFee,
                    loadVars, reqVars, notice >>

\* The Online Payment input (lines 682-689).
EditOnline(v) ==
    /\ renewDialogOpen
    /\ v # online
    /\ online' = v
    /\ UNCHANGED << catalogVars, renewDialogOpen, selectedStudent, formVars,
                    optVars, selVars, totalFee, cash, discount, lockerFee,
                    loadVars, reqVars, notice >>

\* The Discount input (lines 660-667).
EditDiscount(v) ==
    /\ renewDialogOpen
    /\ v # discount
    /\ discount' = v
    /\ UNCHANGED << catalogVars, renewDialogOpen, selectedStudent, formVars,
                    optVars, selVars, totalFee, cash, online, lockerFee,
                    loadVars, reqVars, notice >>

(***************************************************************************)
(* The personal fields and the submission (lines 349-393, 514-584).        *)
(***************************************************************************)
\* What the user types into the text inputs of the model.
NameInputs == {"", "  ", "Asha"}
PhoneInputs == {"", "98"}
AddressInputs == {"", "Main Rd"}

\* The Name input (lines 516-521).
EditName(v) ==
    /\ renewDialogOpen
    /\ v # nameInput
    /\ nameInput' = v
    /\ UNCHANGED << catalogVars, renewDialogOpen, selectedStudent, phoneInput,
                    addressInput, startDate, endDate, optVars, selVars,
                    totalFee, moneyVars, loadVars, reqVars, notice >>

\* The Phone input (lines 578-583).
EditPhone(v) ==
    /\ renewDialogOpen
    /\ v # phoneInput
    /\ phoneInput' = v
    /\ UNCHANGED << catalogVars, renewDialogOpen, selectedStudent, nameInput,
                    addressInput, startDate, endDate, optVars, selVars,
                    totalFee, moneyVars, loadVars, reqVars, notice >>

\* The Address textarea (lines 552-557).
EditAddress(v) ==
    /\ renewDialogOpen
    /\ v # addressInput
    /\ addressInput' = v
    /\ UNCHANGED << catalogVars, renewDialogOpen, selectedStudent, nameInput,
                    phoneInput, startDate, endDate, optVars, selVars,
                    totalFee, moneyVars, loadVars, reqVars, notice >>

\* The test of lines 350-354 without its last disjunct.
SubmitInvalidNoShiftTest ==
    \/ selectedStudent = NoStudent
    \/ ~startDate
    \/ ~endDate
    \/ Trim(nameInput) = ""
    \/ Trim(phoneInput) = ""
    \/ Trim(addressInput) = ""
    \/ totalFee = EmptyStr
    \/ ~HasValue(selectedBranch)

\* The test of lines 350-354.
SubmitInvalid ==
    \/ selectedStudent = NoStudent
    \/ ~startDate
    \/ ~endDate
    \/ Trim(nameInput) = ""
    \/ Trim(phoneInput) = ""
    \/ Trim(addressInput) = ""
    \/ totalFee = EmptyStr
    \/ ~HasValue(selectedBranch)
    \/ selectedShifts = {}

\* The call of lines 360-381: the student and, of the payload, the
\* selections; an absent seatId or lockerId is NullSel.
RenewPayload ==
    [ student   |-> selectedStudent,
      branchId  |-> selectedBranch,
      shiftIds  |-> selectedShifts,
      seatId    |-> selectedSeat,
      lockerId  |-> selectedLocker ]

\* handleRenewSubmit up to its await (lines 349-381): the toast of line 355
\* and nothing else, or the renewStudent call.
HandleRenewSubmit ==
    /\ renewDialogOpen
    /\ IF SubmitInvalid
       THEN /\ notice' = "required"
            /\ UNCHANGED renewReqs
       ELSE /\ BagCardinality(renewReqs) < MaxRenewCalls
            /\ renewReqs' = renewReqs (+) SetToBag({RenewPayload})
            /\ UNCHANGED notice
    /\ UNCHANGED << catalogVars, renewDialogOpen, selectedStudent, formVars,
                    optVars, selVars, totalFee, moneyVars, loadVars,
                    branchReqs, shiftReqs >>

\* renewStudent answered (lines 383-384): the dialog closes.  The effects
\* run and do nothing: renewDialogOpen is false.
RenewOk ==
    \E p \in BagToSet(renewReqs) :
        /\ renewReqs' = renewReqs (-) SetToBag({p})
        /\ notice' = "renewed"
        /\ renewDialogOpen' = FALSE
        /\ UNCHANGED << catalogVars, selectedStudent, formVars, optVars, selVars,
                        totalFee, moneyVars, loadVars, branchReqs, shiftReqs >>

\* The catch of lines 389-392 closing the dialog as line 384 does.
DialogOpenAfterRenewFailClosed(open) == FALSE

\* The catch of lines 389-392 logs and toasts: setRenewDialogOpen is not
\* called.
DialogOpenAfterRenewFail(open) == open

\* renewStudent failed (lines 389-392): the toast and nothing else.
RenewFail ==
    \E p \in BagToSet(renewReqs) :
        /\ renewReqs' = renewReqs (-) SetToBag({p})
        /\ notice' = "failed"
        /\ renewDialogOpen' = DialogOpenAfterRenewFail(renewDialogOpen)
        /\ UNCHANGED << catalogVars, selectedStudent, formVars,
                        optVars, selVars, totalFee, moneyVars, loadVars,
                        branchReqs, shiftReqs >>

\* The requests the model can hold.
BranchReqSpace == [branch : Branches, student : StudentIds]
ShiftReqSpace == [seat : AllSeatIds, student : StudentIds, shifts : {{}, Shifts}]

(***************************************************************************)
(* The selection machine: the dialog, its selections and the two           *)
(* resolvers with their outstanding requests.                              *)
(***************************************************************************)
Next ==
    \/ CatalogLoaded
    \/ CatalogFailed
    \/ \E st \in StudentIds : HandleRenewClick(st)
    \/ CancelDialog
    \/ \E b \in Branches : SetBranch(b)
    \/ \E s \in AllSeatIds \cup {NoneOpt, NullSel} : SetSeat(s)
    \/ PickShift
    \/ RemoveShift
    \/ \E q \in BranchReqSpace : BranchFetchOk(q)
    \/ \E q \in BranchReqSpace : BranchFetchFail(q)
    \/ \E q \in ShiftReqSpace : ShiftFetchOk(q)
    \/ \E q \in ShiftReqSpace : ShiftFetchFail(q)

Spec == Init /\ [][Next]_vars

(***************************************************************************)
(* The fee calculator: one dialog with its shift selection and its fee     *)
(* and payment inputs.                                                     *)
(***************************************************************************)
NextFee ==
    \/ CatalogLoaded
    \/ CatalogFailed
    \/ \E st \in StudentIds : HandleRenewClick(st)
    \/ CancelDialog
    \/ \E b \in Branches : SetBranch(b)
    \/ \E s \in AllSeatIds \cup {NoneOpt, NullSel} : SetSeat(s)
    \/ PickShift
    \/ RemoveShift
    \/ \E q \in BranchReqSpace : BranchFetchOk(q)
    \/ \E q \in ShiftReqSpace : ShiftFetchOk(q)
    \/ \E q \in ShiftReqSpace : ShiftFetchFail(q)
    \/ \E v \in FeeInputs : EditTotalFee(v)

SpecFee == Init /\ [][NextFee]_vars

(***************************************************************************)
(* The derived amounts: one dialog with its shift selection and its fee    *)
(* and payment inputs.                                                     *)
(***************************************************************************)
NextMoney ==
    \/ CatalogLoaded
    \/ \E st \in StudentIds : HandleRenewClick(st)
    \/ PickShift
    \/ RemoveShift
    \/ \E q \in BranchReqSpace : BranchFetchOk(q)
    \/ \E q \in ShiftReqSpace : ShiftFetchOk(q)
    \/ \E v \in FeeInputs : EditTotalFee(v)
    \/ \E v \in CashInputs : EditCash(v)
    \/ \E v \in OnlineInputs : EditOnline(v)
    \/ \E v \in DiscountInputs : EditDiscount(v)

SpecMoney == Init /\ [][NextMoney]_vars

(***************************************************************************)
(* The submission: one dialog with its personal fields, its selections     *)
(* and the renewStudent call.                                              *)
(***************************************************************************)
NextForm ==
    \/ CatalogLoaded
    \/ \E st \in StudentIds : HandleRenewClick(st)
    \/ PickShift
    \/ RemoveShift
    \/ \E q \in BranchReqSpace : BranchFetchOk(q)
    \/ \E q \in ShiftReqSpace : ShiftFetchOk(q)
    \/ \E v \in FeeInputs : EditTotalFee(v)
    \/ \E v \in NameInputs : EditName(v)
    \/ \E v \in PhoneInputs : EditPhone(v)
    \/ \E v \in AddressInputs : EditAddress(v)
    \/ HandleRenewSubmit
    \/ RenewOk
    \/ RenewFail

SpecForm == Init /\ [][NextForm]_vars

(***************************************************************************)
(* The availability resolver: the dialog with its branch and locker        *)
(* selections and the outstanding getSeats/getLockers requests.            *)
(***************************************************************************)
NextBranch ==
    \/ CatalogLoaded
    \/ \E st \in StudentIds : HandleRenewClick(st)
    \/ CancelDialog
    \/ \E b \in Branches : SetBranch(b)
    \/ \E l \in AllLockerIds \cup {NoneOpt, NullSel} : HandleLockerChange(l)
    \/ \E q \in BranchReqSpace : BranchFetchOk(q)
    \/ \E q \in BranchReqSpace : BranchFetchFail(q)
    \/ \E q \in ShiftReqSpace : ShiftFetchOk(q)

SpecBranch == Init /\ [][NextBranch]_vars

(***************************************************************************)
(* The submission after selection changes: the dialog with its branch,     *)
(* seat and locker selections and the renewStudent call.                   *)
(***************************************************************************)
NextSubmit ==
    \/ CatalogLoaded
    \/ \E st \in StudentIds : HandleRenewClick(st)
    \/ \E b \in Branches : SetBranch(b)
    \/ \E s \in AllSeatIds \cup {NoneOpt, NullSel} : SetSeat(s)
    \/ \E l \in AllLockerIds \cup {NoneOpt, NullSel} : HandleLockerChange(l)
    \/ \E q \in BranchReqSpace : BranchFetchOk(q)
    \/ \E q \in ShiftReqSpace : ShiftFetchOk(q)
    \/ HandleRenewSubmit
    \/ RenewOk

SpecSubmit == Init /\ [][NextSubmit]_vars

(***************************************************************************)
(* Properties of the selection machine.                                    *)
(***************************************************************************)
\* The shifts eligible for a seat and a student: any shift when no seat is
\* chosen, else the shifts free for the seat and the student's own.
EligibleFor(seat, st) ==
    IF HasValue(seat)
    THEN ServerFreeShifts(seat) \cup StudentShiftIds(st)
    ELSE Shifts

\* C1: a step that changes the branch leaves no seat and no locker selected.
C1_BranchChangeResetsSeatAndLocker ==
    [][\A b \in Branches :
          SetBranch(b) => (selectedSeat' = NullSel /\ selectedLocker' = NullSel)]_vars

\* C2: when the answer to a shift-availability request is applied, every
\* selected shift is among the shifts reported free for the request's seat
\* or among the shifts the request's student is assigned to.
C2_SelectionWithinNewEligibleSet ==
    [][\A q \in ShiftReqSpace :
          ShiftFetchOk(q) =>
              selectedShifts' \subseteq
                  (ServerFreeShifts(q.seat) \cup StudentShiftIds(q.student))]_vars

\* A seat other than the student's own is selected, its resolution has been
\* applied and a shift is selected.
C2_Witness ==
    /\ renewDialogOpen
    /\ selectedStudent = 1
    /\ selectedSeat = 1
    /\ shiftReqs = EmptyBag
    /\ shiftOptions = [ s \in Shifts |-> s \notin {1, 3} ]
    /\ selectedShifts = {3}

\* C3: while the dialog is open, every selected shift is eligible for the
\* selected seat.
C3_SelectionAlwaysEligible ==
    renewDialogOpen => selectedShifts \subseteq EligibleFor(selectedSeat, selectedStudent)

\* C4: when the answer to a shift-availability request is applied, no shift
\* the request's student is assigned to is disabled, and none of them is
\* dropped from the selection.
C4_OwnShiftsStayEligible ==
    [][\A q \in ShiftReqSpace :
          ShiftFetchOk(q) =>
              \A f \in StudentShiftIds(q.student) :
                  /\ f \in DOMAIN shiftOptions' => ~shiftOptions'[f]
                  /\ f \in selectedShifts => f \in selectedShifts']_vars

\* Student 1 holds shift 1 on seat 2, for which only shift 2 is reported
\* free: the resolution for seat 2 has been applied, shift 1 is enabled and
\* still selected.
C4_Witness ==
    /\ renewDialogOpen
    /\ selectedStudent = 1
    /\ selectedSeat = 2
    /\ shiftReqs = EmptyBag
    /\ 1 \notin ServerFreeShifts(2)
    /\ shiftOptions = [ s \in Shifts |-> s = 3 ]
    /\ 1 \in selectedShifts

\* C5: when the answer to a seats request is applied, a seat of the branch
\* is in the seat options iff it has no occupant or its occupant is the
\* request's student.
C5_OnlyOfferableSeatsListed ==
    [][\A q \in BranchReqSpace :
          BranchFetchOk(q) =>
              \A seat \in Range(ServerSeats(q.branch)) :
                  seat.id \in Range(seatOptions') <=>
                      (seat.studentId = 0 \/ seat.studentId = q.student)]_vars

\* The seats of branch 1 are listed for student 1: the free seat 1 and the
\* student's own seat 2, not seat 3, which another student occupies.
C5_Witness ==
    /\ renewDialogOpen
    /\ selectedStudent = 1
    /\ selectedBranch = 1
    /\ branchReqs = EmptyBag
    /\ seatOptions = << NoneOpt, 1, 2 >>

\* C9: the answer to a request made for a seat (a branch) that is no longer
\* the selected one changes neither the options nor the selection.
C9_StaleAnswersDiscarded ==
    [][/\ \A q \in ShiftReqSpace :
             (ShiftFetchOk(q) /\ q.seat # selectedSeat) =>
                 UNCHANGED << shiftOptions, selectedShifts >>
       /\ \A q \in BranchReqSpace :
             (BranchFetchOk(q) /\ q.branch # selectedBranch) =>
                 UNCHANGED << seatOptions, lockerOptions >>]_vars

\* C10 as stated: a seat change keeps every selected shift that is eligible
\* for the new seat (the resolution only removes shifts, so the selection
\* after it can equal the old selection cut to the eligible set only if the
\* change itself keeps those shifts).
C10_SeatChangeKeepsEligibleShifts ==
    [][\A s \in AllSeatIds \cup {NoneOpt, NullSel} :
          SetSeat(s) =>
              (selectedShifts \cap EligibleFor(s, selectedStudent))
                  \subseteq selectedShifts']_vars

\* C10 amended: a seat change empties the selection; the answer to a
\* shift-availability request removes from the selection exactly the shifts
\* that are not eligible.
C10_SeatChangeClearsThenFilters ==
    [][/\ \A s \in AllSeatIds \cup {NoneOpt, NullSel} :
             SetSeat(s) => selectedShifts' = {}
       /\ \A q \in ShiftReqSpace :
             ShiftFetchOk(q) =>
                 selectedShifts' = selectedShifts \cap
                     (ServerFreeShifts(q.seat) \cup StudentShiftIds(q.student))]_vars

\* Student 2 has moved to seat 1, the resolution has been applied, and a
\* shift eligible for seat 1 is selected.
C10_Witness ==
    /\ renewDialogOpen
    /\ selectedStudent = 2
    /\ selectedSeat = 1
    /\ shiftReqs = EmptyBag
    /\ shiftOptions = [ s \in Shifts |-> s \notin {1, 3} ]
    /\ selectedShifts = {1}

\* C11: a failed shift-availability request leaves the shift options as
\* they were: the same options with the same disabled flags, not every shift
\* enabled.
C11_FailedShiftFetchKeepsOptions ==
    [][\A q \in ShiftReqSpace :
          ShiftFetchFail(q) =>
              /\ DOMAIN shiftOptions' = DOMAIN shiftOptions
              /\ \A s \in DOMAIN shiftOptions : shiftOptions'[s] = shiftOptions[s]]_vars

\* Student 1 has moved from seat 2 to seat 1 and no request is outstanding:
\* the options are still those resolved for seat 2 (shift 3 disabled, shift
\* 2 enabled), where an answer for seat 1 would have disabled shift 2.
C11_Witness ==
    /\ renewDialogOpen
    /\ selectedStudent = 1
    /\ selectedSeat = 1
    /\ shiftReqs = EmptyBag
    /\ ~loadingShifts
    /\ shiftOptions = [ s \in Shifts |-> s = 3 ]

\* C16: at most one getSeats/getLockers resolution is outstanding and at
\* most one getAvailableShifts request is outstanding.
C16_OneFetchPerResolver ==
    /\ BagCardinality(branchReqs) <= 1
    /\ BagCardinality(shiftReqs) <= 1

\* C17: when the answer to a shift-availability request is applied, the
\* shift options are exactly the shifts of the catalog, and a shift is
\* enabled iff it is reported free for the request's seat or the request's
\* student is assigned to it.
C17_OptionsMarkCatalogByUnion ==
    [][\A q \in ShiftReqSpace :
          ShiftFetchOk(q) =>
              shiftOptions' =
                  [ s \in allShifts |->
                      s \notin (ServerFreeShifts(q.seat) \cup StudentShiftIds(q.student)) ]]_vars

\* A step changes a dependency of the shift resolver (line 268).
ShiftResolverRuns ==
    \/ selectedSeat' # selectedSeat
    \/ allShifts' # allShifts
    \/ selectedStudent' # selectedStudent
    \/ renewDialogOpen' # renewDialogOpen

\* C18: when the shift resolver runs in the open dialog with no seat
\* selected (the seat cleared or the None option picked), it leaves every
\* shift of the catalog enabled and starts no getAvailableShifts request.
C18_NoSeatAllShiftsNoCall ==
    [][(renewDialogOpen' /\ ~HasValue(selectedSeat') /\ ShiftResolverRuns) =>
          /\ DOMAIN shiftOptions' = allShifts'
          /\ \A s \in allShifts' : ~shiftOptions'[s]
          /\ shiftReqs' = shiftReqs]_vars

\* Student 1 held seat 2, for which shift 3 was disabled, and has picked the
\* None option: every shift is enabled and no request is outstanding.
C18_Witness ==
    /\ renewDialogOpen
    /\ selectedStudent = 1
    /\ selectedSeat = NoneOpt
    /\ allShifts = Shifts
    /\ shiftReqs = EmptyBag
    /\ shiftOptions = [ s \in Shifts |-> FALSE ]

\* C25: in the open dialog, the answer to a request made for another
\* student than the one the dialog is open for changes neither the seat and
\* locker options nor the shift options nor the selected shifts.
C25_SessionsIsolated ==
    [][/\ \A q \in BranchReqSpace :
             (BranchFetchOk(q) /\ renewDialogOpen /\ q.student # selectedStudent) =>
                 UNCHANGED << seatOptions, lockerOptions >>
       /\ \A q \in ShiftReqSpace :
             (ShiftFetchOk(q) /\ renewDialogOpen /\ q.student # selectedStudent) =>
                 UNCHANGED << shiftOptions, selectedShifts >>]_vars

\* C26: while a getSeats/getLockers resolution is outstanding loadingSeats
\* and loadingLockers are true, while a getAvailableShifts request is
\* outstanding loadingShifts is true, and with nothing outstanding the three
\* flags are false.
C26_LoadingFlagsTrackRequests ==
    /\ branchReqs # EmptyBag => (loadingSeats /\ loadingLockers)
    /\ shiftReqs # EmptyBag => loadingShifts
    /\ (branchReqs = EmptyBag /\ shiftReqs = EmptyBag) =>
           (~loadingSeats /\ ~loadingLockers /\ ~loadingShifts)

(***************************************************************************)
(* Properties of the availability resolver.                                *)
(***************************************************************************)
\* C12: a failed seats/lockers request leaves the seat options and the
\* locker options as they were.
C12_FailedBranchFetchKeepsOptions ==
    [][\A q \in BranchReqSpace :
          BranchFetchFail(q) =>
              (seatOptions' = seatOptions /\ lockerOptions' = lockerOptions)]_vars

\* Student 1 has moved from branch 1 to branch 2 and no request is
\* outstanding: both lists are still those resolved for branch 1.
C12_Witness ==
    /\ renewDialogOpen
    /\ selectedStudent = 1
    /\ selectedBranch = 2
    /\ branchReqs = EmptyBag
    /\ ~loadingSeats
    /\ ~loadingLockers
    /\ seatOptions = << NoneOpt, 1, 2 >>
    /\ lockerOptions = << NoneOpt, 1, 2 >>

\* C13: in every state the seat options and the locker options come from
\* one resolution: both are as the component starts with, both are the None
\* option alone, or both are built from the seats and the lockers of one
\* branch for one student.
C13_SeatsAndLockersFromOneResolution ==
    \/ seatOptions = << >> /\ lockerOptions = << >>
    \/ seatOptions = << NoneOpt >> /\ lockerOptions = << NoneOpt >>
    \/ \E q \in BranchReqSpace :
           /\ seatOptions = SeatOptionsFor(q.branch, q.student)
           /\ lockerOptions = LockerOptionsFor(q.branch, q.student)

\* Student 1 went from branch 1 to branch 2 and back, and the answer for
\* branch 2 arrived last: with branch 1 selected and nothing outstanding,
\* both lists are those of branch 2.
C13_Witness ==
    /\ renewDialogOpen
    /\ selectedStudent = 1
    /\ selectedBranch = 1
    /\ branchReqs = EmptyBag
    /\ seatOptions = << NoneOpt, 4 >>
    /\ lockerOptions = << NoneOpt, 4 >>

\* C14: a locker change after which no locker is held, by clearing the
\* selection or by picking the None option, leaves lockerFee 0.
C14_NoLockerResetsLockerFee ==
    [][\A l \in {NullSel, NoneOpt} :
          HandleLockerChange(l) => lockerFee' = 0]_vars

\* C19: when the answer to a lockers request is applied, a locker of the
\* branch is in the locker options iff it is not assigned or its occupant is
\* the request's student.
C19_OnlyOfferableLockersListed ==
    [][\A q \in BranchReqSpace :
          BranchFetchOk(q) =>
              \A locker \in Range(ServerLockers(q.branch)) :
                  locker.id \in Range(lockerOptions') <=>
                      (~locker.isAssigned \/ locker.studentId = q.student)]_vars

\* The lockers of branch 1 are listed for student 1: the unassigned locker
\* 1 and the student's own locker 2, not locker 3, which is assigned to
\* another student.
C19_Witness ==
    /\ renewDialogOpen
    /\ selectedStudent = 1
    /\ selectedBranch = 1
    /\ branchReqs = EmptyBag
    /\ lockerOptions = << NoneOpt, 1, 2 >>

\* A step changes a dependency of the availability resolver (line 232).
BranchResolverRuns ==
    \/ selectedBranch' # selectedBranch
    \/ selectedStudent' # selectedStudent
    \/ renewDialogOpen' # renewDialogOpen

\* C20: the seat list and the locker list set from an answer both start
\* with the None option; when the availability resolver runs in the open
\* dialog with no branch selected, both lists are the None option alone and
\* no getSeats/getLockers request is started.
C20_NoneOptionHeadsLists ==
    [][/\ \A q \in BranchReqSpace :
             BranchFetchOk(q) =>
                 /\ Len(seatOptions') > 0 /\ seatOptions'[1] = NoneOpt
                 /\ Len(lockerOptions') > 0 /\ lockerOptions'[1] = NoneOpt
       /\ (renewDialogOpen' /\ ~HasValue(selectedBranch') /\ BranchResolverRuns) =>
             /\ seatOptions' = << NoneOpt >>
             /\ lockerOptions' = << NoneOpt >>
             /\ branchReqs' = branchReqs]_vars

\* The dialog is open for student 2, who has no branch: both lists are the
\* None option alone and no request is outstanding.
C20_Witness ==
    /\ renewDialogOpen
    /\ selectedStudent = 2
    /\ selectedBranch = NullSel
    /\ branchReqs = EmptyBag
    /\ seatOptions = << NoneOpt >>
    /\ lockerOptions = << NoneOpt >>

(***************************************************************************)
(* Properties of the fee calculator.                                       *)
(***************************************************************************)
\* C6 as stated: whenever exactly one shift is selected, totalFee is the fee
\* of that shift's schedule and the fee field is read-only.
C6_SingleShiftFeeIsScheduleFee ==
    \A s \in Shifts :
        selectedShifts = {s} => (totalFee = ScheduleFee(s) /\ isFeeReadOnly)

\* C6 amended: whenever exactly one shift is selected, the fee field is
\* read-only and totalFee is the fee the loaded catalog holds for that shift,
\* or 0 when the catalog does not hold the shift (it has not been loaded).
C6_SingleShiftFeeIsCatalogFee ==
    \A s \in Shifts :
        selectedShifts = {s} =>
            /\ isFeeReadOnly
            /\ totalFee = IF s \in allShifts THEN ScheduleFee(s) ELSE 0

\* The dialog has been opened for student 1, whose stored fee is 250, with
\* the catalog loaded: the one selected shift's fee, 300, has replaced it.
C6_Witness ==
    /\ renewDialogOpen
    /\ selectedStudent = 1
    /\ ServerStudent(1).totalFee = 250
    /\ allShifts = Shifts
    /\ selectedShifts = {1}
    /\ totalFee = 300

\* C21: a step that takes the selection from exactly one shift to none or
\* to several leaves totalFee 0 and the fee field editable.
C21_LeavingSingleShiftResetsFee ==
    [][(Cardinality(selectedShifts) = 1 /\ Cardinality(selectedShifts') # 1) =>
          (totalFee' = 0 /\ ~IsFeeReadOnly(selectedShifts'))]_vars

\* Student 1, whose one shift set the fee to 300, has picked a second shift:
\* the fee is 0 and the field is editable.
C21_Witness ==
    /\ renewDialogOpen
    /\ selectedStudent = 1
    /\ allShifts = Shifts
    /\ selectedShifts = {1, 3}
    /\ totalFee = 0
    /\ ~isFeeReadOnly

\* C24: in the open dialog with no shift or several shifts selected, the
\* answer to a shift-availability request that leaves the selected shifts
\* as they are leaves totalFee as it is.
C24_FetchCompletionKeepsEnteredFee ==
    [][\A q \in ShiftReqSpace :
          (/\ ShiftFetchOk(q)
           /\ renewDialogOpen
           /\ Cardinality(selectedShifts) # 1
           /\ selectedShifts' = selectedShifts) => totalFee' = totalFee]_vars

(***************************************************************************)
(* Properties of the catalog.                                              *)
(***************************************************************************)
\* C22: the catalog is fetched once: after getSchedules/getBranches have
\* answered or failed, no step starts the fetch again or changes the
\* catalog; when the fetch fails the shifts and the branches both stay
\* empty, and the catalog never holds shifts without branches or branches
\* without shifts.
C22_CatalogLoadedOnceAndWhole ==
    [][/\ catalogReq # "pending" =>
             (catalogReq' = catalogReq /\ UNCHANGED << allShifts, branchOptions >>)
       /\ catalogReq' = "failed" => (allShifts' = {} /\ branchOptions' = {})
       /\ (allShifts' = {}) <=> (branchOptions' = {})]_vars

\* The catalog fetch has failed and student 1 has moved from seat 2 to seat
\* 1: both catalogs are empty and no fetch is pending.
C22_Witness ==
    /\ catalogReq = "failed"
    /\ renewDialogOpen
    /\ selectedStudent = 1
    /\ selectedSeat = 1
    /\ allShifts = {}
    /\ branchOptions = {}

\* The number a numeric input stands for: 0 when it is empty.
Num(str) == IF str = EmptyStr THEN 0 ELSE str

\* C7: paid is cash plus online and due is totalFee minus discount minus
\* paid, an empty input counting as 0 and a negative result kept; for 500,
\* 50, 200 and 100 that is 300 paid and 150 due.
C7_PaidAndDueDerived ==
    /\ paid = Num(cash) + Num(online)
    /\ due = Num(totalFee) - Num(discount) - (Num(cash) + Num(online))
    /\ (totalFee = 500 /\ discount = 50 /\ cash = 200 /\ online = 100)
           => (paid = 300 /\ due = 150)

\* More was paid than the fee, with the discount left empty: due is negative.
C7_Witness ==
    /\ renewDialogOpen
    /\ totalFee = 500
    /\ discount = EmptyStr
    /\ cash = 700
    /\ online = 100
    /\ paid = 800
    /\ due = -300

(***************************************************************************)
(* Properties of the submission.                                           *)
(***************************************************************************)
\* A required text field is missing: empty or blank.
Missing(str) == str \in {"", "  "}

\* C8: a submission with no shift selected, or with the name, the phone, the
\* address, the total fee or the branch missing, issues no renewStudent
\* call, leaves the dialog open and changes no field.
C8_InvalidSubmitRejected ==
    [][(/\ HandleRenewSubmit
        /\ \/ selectedShifts = {}
           \/ Missing(nameInput)
           \/ Missing(phoneInput)
           \/ Missing(addressInput)
           \/ totalFee = EmptyStr
           \/ selectedBranch = NullSel)
       => /\ renewReqs' = renewReqs
          /\ renewDialogOpen'
          /\ UNCHANGED << selectedStudent, formVars, selVars, totalFee,
                          moneyVars, optVars >>]_vars

\* A submission was rejected and the dialog of student 1 is open with every
\* required field filled but no shift selected.
C8_Witness ==
    /\ renewDialogOpen
    /\ notice = "required"
    /\ renewReqs = EmptyBag
    /\ selectedStudent = 1
    /\ selectedShifts = {}
    /\ ~Missing(nameInput)
    /\ ~Missing(phoneInput)
    /\ ~Missing(addressInput)
    /\ totalFee # EmptyStr
    /\ HasValue(selectedBranch)

\* C15: a failed renewStudent call leaves the dialog open and changes no
\* personal field, no selection and no fee or payment field.
C15_FailedRenewKeepsDialog ==
    [][(RenewFail /\ renewDialogOpen) =>
          /\ renewDialogOpen'
          /\ UNCHANGED << selectedStudent, formVars, selVars, totalFee,
                          moneyVars >>]_vars

\* The renewal of student 1 has failed: the dialog is open with the fields
\* and the selections of a submission that passes the test of lines 350-354.
C15_Witness ==
    /\ renewDialogOpen
    /\ notice = "failed"
    /\ renewReqs = EmptyBag
    /\ selectedStudent = 1
    /\ nameInput = "Asha"
    /\ phoneInput = "98"
    /\ addressInput = "Main Rd"
    /\ selectedBranch = 1
    /\ selectedSeat = 2
    /\ selectedLocker = 2
    /\ selectedShifts = {1}
    /\ totalFee = 300
    /\ cash = 200
    /\ ~SubmitInvalid

\* C23: in every renewStudent call, the seat, when one is sent, is among the
\* seats offerable to the student in the branch that is sent, and so is the
\* locker.
C23_PayloadSeatAndLockerOfBranch ==
    \A p \in BagToSet(renewReqs) :
        /\ HasValue(p.seatId) =>
               p.seatId \in Range(SeatOptionsFor(p.branchId, p.student))
        /\ HasValue(p.lockerId) =>
               p.lockerId \in Range(LockerOptionsFor(p.branchId, p.student))

=============================================================================
